---- MODULE Spec2Model ----
(***************************************************************************)
(* Document management backend (apps/documents): the entity store          *)
(* (Folder, Document, DocumentVersion, DocumentActivity, Comment), the     *)
(* object permission classes, the queryset scoping of the view sets and    *)
(* the request handlers of the view sets.                                  *)
(*                                                                         *)
(* Spec        every handler of FolderViewSet, DocumentViewSet and         *)
(*             DocumentActivityViewSet is one atomic action (one request   *)
(*             at a time); what a handler answers is an operator of the    *)
(*             state.                                                      *)
(* StepSpec    replace-file requests run one database statement per step,  *)
(*             so that two requests on the same Document interleave.       *)
(* CommentSpec the handlers that write Comment rows, with CommentViewSet.  *)
(* FolderSpec  the handlers of FolderViewSet over several Folder rows.     *)
(***************************************************************************)
EXTENDS Integers, Sequences, FiniteSets, TLC

(* ---------------------------------------------------------------- bounds *)
MaxDocs == 1
MaxFolders == 1
MaxActs == 3
MaxFiles == 3
MaxComments == 1
MaxRequests == 2
MaxTreeFolders == 2

(* ------------------------------------------------------------ principals *)
\* The authenticated principals (settings.AUTH_USER_MODEL rows); every request
\* passes IsAuthenticated.
Users == {"alice", "bob", "root"}

\* request.user.is_staff or (hasattr(request.user, 'is_admin') and request.user.is_admin)
StaffUsers == {"root"}

\* a null foreign key (Document.folder, Folder.parent, DocumentActivity.document)
None == 0

\* rest_framework.permissions.SAFE_METHODS as the permission classes use it
SAFE_METHODS == {"GET", "HEAD", "OPTIONS"}

\* user_ids of a share / unshare request, shared_users_ids of an update
UserIdLists == {{}, {"bob"}}

\* An uploaded file (request.FILES): its name is the base name the client chose,
\* never a path that get_file_path generated.
ClientFile == [id |-> 0]

\* the primary keys a request may name
DocIds == 1..MaxDocs
FolderIds == 1..MaxFolders
TreeFolderIds == 1..MaxTreeFolders

\* Folder.name values of the request bodies; with a single Folder row (Spec) one
\* name is every case there is
FolderNames == {"Reports", "Drafts"}
OneFolderName == {"Reports"}

\* One optional field of a request body: absent, or present with a value of vs.
Field(name, vs) == {<<>>} \cup {[k \in {name} |-> v] : v \in vs}

VARIABLES
    folders,      \* Folder rows: id -> [name, owner, parent, is_public, shared_users]
    docs,         \* Document rows: id -> [owner, is_public, shared_users, file, version, folder]
    versions,     \* DocumentVersion rows, in insertion order
    activities,   \* DocumentActivity rows, in insertion order
    comments,     \* Comment rows, in insertion order
    nextDoc,      \* next Document primary key
    nextFolder,   \* next Folder primary key
    nextFile,     \* next uuid of get_file_path
    reqs          \* replace-file requests in flight (StepSpec)

vars == <<folders, docs, versions, activities, comments, nextDoc, nextFolder,
          nextFile, reqs>>

store == <<folders, docs, versions, activities, comments>>

(* --------------------------------------------------------------- helpers *)
\* f with key k removed / set
Without(f, ks) == [k \in DOMAIN f \ ks |-> f[k]]
With(f, k, v) == [x \in DOMAIN f \cup {k} |-> IF x = k THEN v ELSE f[x]]

\* models.py get_file_path: documents/[<folder id>/]<uuid4>.<ext>, a path no other
\* stored file has; the uuid stands for the path
get_file_path(uuid) == [id |-> uuid]

\* the admin test of both permission classes and of the activity queryset
IsAdminUser(user) == user \in StaffUsers

\* mutant: the shared users are let through whatever the method is
IsOwnerAdminOrShared_AnyMethod(user, method, obj) ==
    IF IsAdminUser(user) THEN TRUE
    ELSE IF obj.owner = user THEN TRUE
    ELSE IF obj.is_public THEN TRUE
    ELSE IF user \in obj.shared_users THEN TRUE
    ELSE FALSE

\* permissions.py IsOwnerAdminOrShared.has_object_permission
IsOwnerAdminOrShared(user, method, obj) ==
    IF IsAdminUser(user) THEN TRUE
    ELSE IF obj.owner = user THEN TRUE
    ELSE IF obj.is_public THEN TRUE
    ELSE IF user \in obj.shared_users /\ method \in SAFE_METHODS THEN TRUE
    ELSE FALSE

\* mutant: the queryset without the Q(owner=user) term
DocumentQueryset_NoOwner(user) ==
    {d \in DOMAIN docs : \/ user \in docs[d].shared_users
                         \/ docs[d].is_public}

\* views.py DocumentViewSet.get_queryset
DocumentQueryset(user) ==
    {d \in DOMAIN docs : \/ docs[d].owner = user
                         \/ user \in docs[d].shared_users
                         \/ docs[d].is_public}

\* views.py FolderViewSet.get_queryset
FolderQueryset(user) ==
    {f \in DOMAIN folders : \/ folders[f].owner = user
                            \/ user \in folders[f].shared_users
                            \/ folders[f].is_public}

\* GenericAPIView.get_object as the view sets use it: the row is looked up in
\* the scoped queryset (404), then the object permission is checked (403).
GetObject(qs, rows, user, method, pk) ==
    IF pk \notin qs THEN "notfound"
    ELSE IF ~IsOwnerAdminOrShared(user, method, rows[pk]) THEN "denied"
    ELSE "ok"

DocObject(user, method, pk) == GetObject(DocumentQueryset(user), docs, user, method, pk)
FolderObject(user, method, pk) == GetObject(FolderQueryset(user), folders, user, method, pk)

Activity(d, user, kind) == [document |-> d, user |-> user, activity_type |-> kind]

\* what a read handler answers: the status, and the Document and Folder rows
\* whose data the body holds
Response(status, ds, fs) == [status |-> status, documents |-> ds, folders |-> fs]
Statuses == {"ok", "notfound", "denied", "invalid"}

(* ------------------------------------------------------------- Documents *)
\* on_delete of the rows that reference the deleted Documents ds:
\* DocumentVersion.document and Comment.document CASCADE,
\* DocumentActivity.document SET_NULL
CascadeVersions(ds) == SelectSeq(versions, LAMBDA v : v.document \notin ds)
CascadeComments(ds) == SelectSeq(comments, LAMBDA c : c.document \notin ds)
SetNullActivities(acts, ds) ==
    [i \in DOMAIN acts |->
        IF acts[i].document \in ds THEN [acts[i] EXCEPT !.document = None] ELSE acts[i]]

\* serializers.py DocumentSerializer.create (through DocumentViewSet.perform_create)
\* data: file (required by Document.file), is_public, folder (folder_id, any Folder row)
DocumentCreateData ==
    {f @@ p @@ g : f \in Field("file", {ClientFile}),
                   p \in Field("is_public", {TRUE}),
                   g \in Field("folder", DOMAIN folders)}

CreateDocument(user, data) ==
    IF "file" \notin DOMAIN data
    THEN UNCHANGED vars
    ELSE
        LET folder == IF "folder" \in DOMAIN data THEN data.folder ELSE None
            document == [owner |-> user,
                         is_public |-> IF "is_public" \in DOMAIN data
                                       THEN data.is_public ELSE FALSE,
                         shared_users |-> {},
                         file |-> get_file_path(nextFile),
                         version |-> 1,
                         folder |-> folder]
        IN  /\ nextDoc <= MaxDocs
            /\ nextFile <= MaxFiles
            /\ Len(activities) < MaxActs
            /\ docs' = With(docs, nextDoc, document)
            /\ activities' = Append(activities, Activity(nextDoc, user, "created"))
            /\ versions' = Append(versions, [document |-> nextDoc, file |-> document.file,
                                             version |-> 1, created_by |-> document.owner])
            /\ nextDoc' = nextDoc + 1
            /\ nextFile' = nextFile + 1
            /\ UNCHANGED <<folders, comments, nextFolder, reqs>>

\* serializers.py DocumentDetailSerializer.update (through DocumentViewSet update /
\* partial_update): the fields of the request body that are present are written.
\* Bodies of a partial update with at most one field. An uploaded file has the
\* name its client gave it, which is no path of get_file_path.
DocumentUpdateData ==
    Field("file", {ClientFile})
    \cup Field("is_public", BOOLEAN)
    \cup Field("folder", DOMAIN folders \cup {None})
    \cup Field("shared_users", UserIdLists)

\* mutant: validated_data.get('file') != old_file, true of a body without a file
new_version_needed_Get(instance, validated_data) ==
    "file" \notin DOMAIN validated_data \/ validated_data.file # instance.file

\* serializers.py lines 178-179
new_version_needed(instance, validated_data) ==
    "file" \in DOMAIN validated_data /\ validated_data.file # instance.file

\* super().update(instance, validated_data): every field of the body is set on the
\* instance and the row is saved; a file that is set is stored under get_file_path
ModelUpdate(instance, validated_data, uuid) ==
    LET folder == IF "folder" \in DOMAIN validated_data
                  THEN validated_data.folder ELSE instance.folder
    IN  [instance EXCEPT
            !.folder = folder,
            !.is_public = IF "is_public" \in DOMAIN validated_data
                          THEN validated_data.is_public ELSE @,
            !.file = IF "file" \in DOMAIN validated_data
                     THEN get_file_path(uuid) ELSE @]

SetSharedUsers(document, validated_data) ==
    IF "shared_users" \in DOMAIN validated_data
    THEN [document EXCEPT !.shared_users = validated_data.shared_users]
    ELSE document

\* mutant: the counter is raised twice
BumpVersion_Twice(document) == [document EXCEPT !.version = @ + 2]

\* serializers.py line 194: document.version += 1
BumpVersion(document) == [document EXCEPT !.version = @ + 1]

UpdateDocument(user, pk, data) ==
    LET status == DocObject(user, "PATCH", pk) IN
    IF status # "ok"
    THEN UNCHANGED vars
    ELSE
        LET instance == docs[pk]
            bump == new_version_needed(instance, data)
            saved == SetSharedUsers(ModelUpdate(instance, data, nextFile), data)
            document == IF bump THEN BumpVersion(saved) ELSE saved
        IN  /\ "file" \in DOMAIN data => nextFile <= MaxFiles
            /\ bump => Len(activities) < MaxActs
            /\ docs' = [docs EXCEPT ![pk] = document]
            /\ nextFile' = IF "file" \in DOMAIN data THEN nextFile + 1 ELSE nextFile
            /\ versions' = IF bump
                           THEN Append(versions, [document |-> pk, file |-> document.file,
                                                  version |-> document.version,
                                                  created_by |-> user])
                           ELSE versions
            /\ activities' = IF bump
                             THEN Append(activities, Activity(pk, user, "updated"))
                             ELSE activities
            /\ UNCHANGED <<folders, comments, nextDoc, nextFolder, reqs>>

\* views.py DocumentViewSet.perform_destroy (through destroy)
DestroyDocument(user, pk) ==
    LET status == DocObject(user, "DELETE", pk) IN
    IF status # "ok"
    THEN UNCHANGED vars
    ELSE
        /\ Len(activities) < MaxActs
        /\ activities' = SetNullActivities(
                             Append(activities, Activity(None, user, "deleted")), {pk})
        /\ docs' = Without(docs, {pk})
        /\ versions' = CascadeVersions({pk})
        /\ comments' = CascadeComments({pk})
        /\ UNCHANGED <<folders, nextDoc, nextFolder, nextFile, reqs>>

\* ModelViewSet.list / retrieve of DocumentViewSet
ListDocumentsResponse(user) == Response("ok", DocumentQueryset(user), {})

ListDocuments(user) ==
    /\ ListDocumentsResponse(user).status \in Statuses
    /\ UNCHANGED vars

\* a detail handler that reads the Document get_object returns
DocumentDetailResponse(user, pk) ==
    LET status == DocObject(user, "GET", pk) IN
    Response(status, IF status = "ok" THEN {pk} ELSE {}, {})

\* serializers.py DocumentDetailSerializer.activities: the body of retrieve nests
\* the DocumentActivity rows of the Document (related_name='activities')
RetrievedActivities(user, pk) ==
    IF DocObject(user, "GET", pk) = "ok"
    THEN {i \in DOMAIN activities : activities[i].document = pk}
    ELSE {}

RetrieveDocument(user, pk) ==
    /\ DocumentDetailResponse(user, pk).status \in Statuses
    /\ RetrievedActivities(user, pk) \subseteq DOMAIN activities
    /\ UNCHANGED vars

\* views.py DocumentViewSet.download
DownloadDocument(user, pk) ==
    LET status == DocObject(user, "GET", pk) IN
    IF status # "ok"
    THEN UNCHANGED vars
    ELSE
        /\ Len(activities) < MaxActs
        /\ activities' = Append(activities, Activity(pk, user, "accessed"))
        /\ UNCHANGED <<folders, docs, versions, comments, nextDoc, nextFolder,
                       nextFile, reqs>>

\* views.py DocumentViewSet.versions
VersionsOfDocument(user, pk) ==
    /\ DocumentDetailResponse(user, pk).status \in Statuses
    /\ UNCHANGED vars

\* views.py DocumentViewSet.share
ShareDocument(user, pk, user_ids) ==
    LET status == DocObject(user, "POST", pk) IN
    IF status # "ok"
    THEN UNCHANGED vars
    ELSE
        /\ Len(activities) < MaxActs
        /\ docs' = [docs EXCEPT ![pk].shared_users = @ \cup user_ids]
        /\ activities' = Append(activities, Activity(pk, user, "shared"))
        /\ UNCHANGED <<folders, versions, comments, nextDoc, nextFolder, nextFile, reqs>>

\* views.py DocumentViewSet.unshare
UnshareDocument(user, pk, user_ids) ==
    LET status == DocObject(user, "POST", pk) IN
    IF status # "ok"
    THEN UNCHANGED vars
    ELSE
        /\ Len(activities) < MaxActs
        /\ docs' = [docs EXCEPT ![pk].shared_users = @ \ user_ids]
        /\ activities' = Append(activities, Activity(pk, user, "unshared"))
        /\ UNCHANGED <<folders, versions, comments, nextDoc, nextFolder, nextFile, reqs>>

\* views.py DocumentViewSet.comments, GET
ListComments(user, pk) ==
    /\ DocumentDetailResponse(user, pk).status \in Statuses
    /\ UNCHANGED vars

\* views.py DocumentViewSet.comments, POST
AddComment(user, pk) ==
    LET status == DocObject(user, "POST", pk) IN
    IF status # "ok"
    THEN UNCHANGED vars
    ELSE
        /\ Len(activities) < MaxActs
        /\ Len(comments) < MaxComments
        /\ comments' = Append(comments, [document |-> pk, user |-> user])
        /\ activities' = Append(activities, Activity(pk, user, "commented"))
        /\ UNCHANGED <<folders, docs, versions, nextDoc, nextFolder, nextFile, reqs>>

(* ------------------------------------------------------------ Activities *)
\* views.py DocumentActivityViewSet.get_queryset: the positions in activities.
\* document__owner=user joins the Document row, which a null reference has not.
ActivityQueryset(user) ==
    IF IsAdminUser(user)
    THEN DOMAIN activities
    ELSE {i \in DOMAIN activities :
            /\ activities[i].document # None
            /\ docs[activities[i].document].owner = user}

\* ReadOnlyModelViewSet.list / retrieve of DocumentActivityViewSet
ListActivities(user) ==
    /\ ActivityQueryset(user) \subseteq DOMAIN activities
    /\ UNCHANGED vars

(* -------------------------------------------------------------- Comments *)
\* A Comment row is [document, user]; comments are addressed by their position.
\* permissions.py IsOwnerOrAdmin.has_object_permission. A Comment has the fields
\* document and user and no attribute owner: for a write method of a principal who
\* is no administrator, obj.owner raises AttributeError and the request fails.
IsOwnerOrAdmin(user, method, obj) ==
    IF method \in SAFE_METHODS THEN "ok"
    ELSE IF IsAdminUser(user) THEN "ok"
    ELSE IF "owner" \notin DOMAIN obj THEN "error"
    ELSE IF obj.owner = user THEN "ok"
    ELSE "denied"

\* views.py CommentViewSet.get_queryset
CommentQueryset(user) ==
    {i \in DOMAIN comments :
        LET document == docs[comments[i].document]
        IN  \/ document.owner = user
            \/ user \in document.shared_users
            \/ document.is_public}

\* get_object of CommentViewSet
CommentObject(user, method, i) ==
    IF i \notin CommentQueryset(user) THEN "notfound"
    ELSE IsOwnerOrAdmin(user, method, comments[i])

\* the body of a Comment request: document is a primary key of Document.objects.all()
CommentData == [document : DocIds]

\* ModelViewSet.create of CommentViewSet with perform_create and
\* CommentSerializer.create: no object permission is checked on create
CreateComment(user, data) ==
    IF data.document \notin DOMAIN docs
    THEN UNCHANGED vars
    ELSE
        /\ Len(comments) < MaxComments
        /\ comments' = Append(comments, [document |-> data.document, user |-> user])
        /\ UNCHANGED <<folders, docs, versions, activities, nextDoc, nextFolder,
                       nextFile, reqs>>

\* ModelViewSet.update / partial_update of CommentViewSet: document is a writable
\* field of CommentSerializer, user is read-only
UpdateComment(user, i, data) ==
    LET status == CommentObject(user, "PATCH", i) IN
    IF status # "ok" \/ data.document \notin DOMAIN docs
    THEN UNCHANGED vars
    ELSE
        /\ comments' = [comments EXCEPT ![i].document = data.document]
        /\ UNCHANGED <<folders, docs, versions, activities, nextDoc, nextFolder,
                       nextFile, reqs>>

\* ModelViewSet.destroy of CommentViewSet
DestroyComment(user, i) ==
    LET status == CommentObject(user, "DELETE", i) IN
    IF status # "ok"
    THEN UNCHANGED vars
    ELSE
        /\ comments' = [j \in 1..(Len(comments) - 1) |->
                            IF j < i THEN comments[j] ELSE comments[j + 1]]
        /\ UNCHANGED <<folders, docs, versions, activities, nextDoc, nextFolder,
                       nextFile, reqs>>

\* ModelViewSet.list / retrieve of CommentViewSet: the Comment rows of the body
ListAllCommentsResponse(user) == CommentQueryset(user)

ListAllComments(user) ==
    /\ ListAllCommentsResponse(user) \subseteq DOMAIN comments
    /\ UNCHANGED vars

(* --------------------------------------------------------------- Folders *)
\* Folder.parent on_delete=CASCADE: the folders removed with the folders in fs
RECURSIVE CascadeFolders(_)
CascadeFolders(fs) ==
    LET more == fs \cup {f \in DOMAIN folders : folders[f].parent \in fs}
    IN  IF more = fs THEN fs ELSE CascadeFolders(more)

\* Document.folder on_delete=CASCADE: the documents removed with the folders fs
CascadeDocuments(fs) == {d \in DOMAIN docs : docs[d].folder \in fs}

\* Folder.Meta.unique_together = ['name', 'parent', 'owner'] as the database
\* enforces it on the INSERT or UPDATE of row as Folder pk: a unique index over
\* (name, parent_id, owner_id), in which NULL is distinct from every value, so that
\* rows without a parent never collide. The serializers run no validator for it:
\* owner is a read-only field of FolderSerializer with no default, and a serializer
\* that does not write every field of a unique_together gets no
\* UniqueTogetherValidator.
FolderUnique(pk, row) ==
    \A f \in DOMAIN folders \ {pk} :
        ~(/\ row.parent # None
          /\ folders[f].name = row.name
          /\ folders[f].parent = row.parent
          /\ folders[f].owner = row.owner)

\* models.py Folder.full_path walks the parent references up to a Folder without a
\* parent: whether the walk from Folder f ends within fuel steps
RECURSIVE full_path_ends(_, _)
full_path_ends(f, fuel) ==
    IF folders[f].parent = None THEN TRUE
    ELSE IF fuel = 0 THEN FALSE
    ELSE full_path_ends(folders[f].parent, fuel - 1)

\* serializers.py FolderSerializer.create (through FolderViewSet.perform_create);
\* name is required, parent_id is any Folder row
FolderCreateData(names) ==
    {n @@ p @@ g : n \in [name : names],
                   p \in Field("is_public", {TRUE}),
                   g \in Field("parent", DOMAIN folders)}

CreateFolder(user, data) ==
    LET folder == [name |-> data.name,
                   owner |-> user,
                   parent |-> IF "parent" \in DOMAIN data THEN data.parent ELSE None,
                   is_public |-> IF "is_public" \in DOMAIN data
                                 THEN data.is_public ELSE FALSE,
                   shared_users |-> {}]
    IN  IF ~FolderUnique(nextFolder, folder)
        THEN UNCHANGED vars
        ELSE /\ folders' = With(folders, nextFolder, folder)
             /\ nextFolder' = nextFolder + 1
             /\ UNCHANGED <<docs, versions, activities, comments, nextDoc, nextFile,
                            reqs>>

\* serializers.py FolderDetailSerializer.update (through FolderViewSet update /
\* partial_update)
FolderUpdateData(names) ==
    Field("name", names)
    \cup Field("is_public", BOOLEAN)
    \cup Field("parent", DOMAIN folders \cup {None})
    \cup Field("shared_users", UserIdLists)

\* super().update saves the row first (the UPDATE the unique index can refuse),
\* shared_users.set follows
UpdateFolder(user, pk, data) ==
    LET status == FolderObject(user, "PATCH", pk) IN
    IF status # "ok"
    THEN UNCHANGED vars
    ELSE
        LET folder == [folders[pk] EXCEPT
                !.name = IF "name" \in DOMAIN data THEN data.name ELSE @,
                !.parent = IF "parent" \in DOMAIN data THEN data.parent ELSE @,
                !.is_public = IF "is_public" \in DOMAIN data THEN data.is_public ELSE @]
        IN  IF ~FolderUnique(pk, folder)
            THEN UNCHANGED vars
            ELSE /\ folders' = [folders EXCEPT ![pk] =
                        [folder EXCEPT !.shared_users =
                            IF "shared_users" \in DOMAIN data
                            THEN data.shared_users ELSE @]]
                 /\ UNCHANGED <<docs, versions, activities, comments, nextDoc,
                                nextFolder, nextFile, reqs>>

\* ModelViewSet.destroy of FolderViewSet: instance.delete() with its cascades
DestroyFolder(user, pk) ==
    LET status == FolderObject(user, "DELETE", pk) IN
    IF status # "ok"
    THEN UNCHANGED vars
    ELSE
        LET fs == CascadeFolders({pk})
            ds == CascadeDocuments(fs)
        IN  /\ folders' = Without(folders, fs)
            /\ docs' = Without(docs, ds)
            /\ versions' = CascadeVersions(ds)
            /\ comments' = CascadeComments(ds)
            /\ activities' = SetNullActivities(activities, ds)
            /\ UNCHANGED <<nextDoc, nextFolder, nextFile, reqs>>

\* ModelViewSet.list / retrieve of FolderViewSet
ListFoldersResponse(user) == Response("ok", {}, FolderQueryset(user))

ListFolders(user) ==
    /\ ListFoldersResponse(user).status \in Statuses
    /\ UNCHANGED vars

RetrieveFolderResponse(user, pk) ==
    LET status == FolderObject(user, "GET", pk) IN
    Response(status, {}, IF status = "ok" THEN {pk} ELSE {})

RetrieveFolder(user, pk) ==
    /\ RetrieveFolderResponse(user, pk).status \in Statuses
    /\ UNCHANGED vars

\* views.py FolderViewSet.contents
FolderContentsResponse(user, pk) ==
    LET status == FolderObject(user, "GET", pk) IN
    IF status # "ok"
    THEN Response(status, {}, {})
    ELSE Response("ok", {d \in DOMAIN docs : docs[d].folder = pk},
                        {f \in DOMAIN folders : folders[f].parent = pk})

FolderContents(user, pk) ==
    /\ FolderContentsResponse(user, pk).status \in Statuses
    /\ UNCHANGED vars

\* views.py FolderViewSet.share
ShareFolder(user, pk, user_ids) ==
    LET status == FolderObject(user, "POST", pk) IN
    IF status # "ok"
    THEN UNCHANGED vars
    ELSE
        /\ folders' = [folders EXCEPT ![pk].shared_users = @ \cup user_ids]
        /\ UNCHANGED <<docs, versions, activities, comments, nextDoc, nextFolder,
                       nextFile, reqs>>

\* views.py FolderViewSet.unshare
UnshareFolder(user, pk, user_ids) ==
    LET status == FolderObject(user, "POST", pk) IN
    IF status # "ok"
    THEN UNCHANGED vars
    ELSE
        /\ folders' = [folders EXCEPT ![pk].shared_users = @ \ user_ids]
        /\ UNCHANGED <<docs, versions, activities, comments, nextDoc, nextFolder,
                       nextFile, reqs>>

(* ------------------------------------------------------------------ Init *)
NoRequest == [pc |-> "idle"]
ReqIds == 1..MaxRequests

Init ==
    /\ folders = <<>>
    /\ docs = <<>>
    /\ versions = <<>>
    /\ activities = <<>>
    /\ comments = <<>>
    /\ nextDoc = 1
    /\ nextFolder = 1
    /\ nextFile = 1
    /\ reqs = [r \in ReqIds |-> NoRequest]

(* ------------------------------------------------------------------ Spec *)
Next ==
    \/ \E user \in Users, data \in DocumentCreateData : CreateDocument(user, data)
    \/ \E user \in Users, pk \in DocIds :
          \E data \in DocumentUpdateData : UpdateDocument(user, pk, data)
    \/ \E user \in Users, pk \in DocIds : DestroyDocument(user, pk)
    \/ \E user \in Users : ListDocuments(user)
    \/ \E user \in Users, pk \in DocIds : RetrieveDocument(user, pk)
    \/ \E user \in Users, pk \in DocIds : DownloadDocument(user, pk)
    \/ \E user \in Users, pk \in DocIds : VersionsOfDocument(user, pk)
    \/ \E user \in Users, pk \in DocIds, user_ids \in UserIdLists :
          ShareDocument(user, pk, user_ids)
    \/ \E user \in Users, pk \in DocIds, user_ids \in UserIdLists :
          UnshareDocument(user, pk, user_ids)
    \/ \E user \in Users, pk \in DocIds : ListComments(user, pk)
    \/ \E user \in Users, pk \in DocIds : AddComment(user, pk)
    \/ \E user \in Users, data \in FolderCreateData(OneFolderName) :
          nextFolder <= MaxFolders /\ CreateFolder(user, data)
    \/ \E user \in Users, pk \in FolderIds, data \in FolderUpdateData(OneFolderName) :
          UpdateFolder(user, pk, data)
    \/ \E user \in Users, pk \in FolderIds : DestroyFolder(user, pk)
    \/ \E user \in Users : ListFolders(user)
    \/ \E user \in Users, pk \in FolderIds : RetrieveFolder(user, pk)
    \/ \E user \in Users, pk \in FolderIds : FolderContents(user, pk)
    \/ \E user \in Users, pk \in FolderIds, user_ids \in UserIdLists :
          ShareFolder(user, pk, user_ids)
    \/ \E user \in Users, pk \in FolderIds, user_ids \in UserIdLists :
          UnshareFolder(user, pk, user_ids)
    \/ \E user \in Users : ListActivities(user)

Spec == Init /\ [][Next]_vars

(* -------------------------------------------------------------- StepSpec *)
(* DocumentDetailSerializer.update one database statement at a time. No    *)
(* statement of the handler runs in transaction.atomic, so each is         *)
(* committed as it is executed (autocommit) and requests interleave        *)
(* between statements. A request holds the instance it loaded.             *)

\* Model.save(): the UPDATE writes every column of the row from the instance in
\* memory; shared_users is a many-to-many table of its own
SaveInstance(pk, instance) ==
    [docs EXCEPT ![pk] = [instance EXCEPT !.shared_users = docs[pk].shared_users]]

\* get_object, then serializers.py lines 174-179
BeginUpdate(r, user, pk, data) ==
    /\ reqs[r].pc = "idle"
    /\ DocObject(user, "PATCH", pk) = "ok"
    /\ reqs' = [reqs EXCEPT ![r] =
           [pc |-> "update", user |-> user, pk |-> pk, data |-> data,
            instance |-> docs[pk],
            new_version_needed |-> new_version_needed(docs[pk], data)]]
    /\ UNCHANGED store
    /\ UNCHANGED <<nextDoc, nextFolder, nextFile>>

\* serializers.py line 182: super().update(instance, validated_data)
StepUpdate(r) ==
    LET q == reqs[r]
        instance == ModelUpdate(q.instance, q.data, nextFile)
    IN  /\ q.pc = "update"
        /\ "file" \in DOMAIN q.data => nextFile <= MaxFiles
        /\ docs' = SaveInstance(q.pk, instance)
        /\ nextFile' = IF "file" \in DOMAIN q.data THEN nextFile + 1 ELSE nextFile
        /\ reqs' = [reqs EXCEPT ![r].instance = instance, ![r].pc = "shared_users"]
        /\ UNCHANGED <<folders, versions, activities, comments, nextDoc, nextFolder>>

\* serializers.py lines 185-193
StepSharedUsers(r) ==
    LET q == reqs[r] IN
    /\ q.pc = "shared_users"
    /\ docs' = [docs EXCEPT ![q.pk] = SetSharedUsers(@, q.data)]
    /\ reqs' = [reqs EXCEPT ![r].pc = IF q.new_version_needed THEN "version" ELSE "done"]
    /\ UNCHANGED <<folders, versions, activities, comments, nextDoc, nextFolder, nextFile>>

\* serializers.py lines 194-195
StepVersion(r) ==
    LET q == reqs[r]
        instance == BumpVersion(q.instance)
    IN  /\ q.pc = "version"
        /\ docs' = SaveInstance(q.pk, instance)
        /\ reqs' = [reqs EXCEPT ![r].instance = instance, ![r].pc = "insert"]
        /\ UNCHANGED <<folders, versions, activities, comments, nextDoc, nextFolder,
                       nextFile>>

\* DocumentVersion.Meta.unique_together = ['document', 'version']
UniqueVersion(document, version) ==
    \A i \in DOMAIN versions :
        ~(versions[i].document = document /\ versions[i].version = version)

\* serializers.py lines 197-204; the INSERT of a (document, version) pair that
\* exists raises IntegrityError, which nothing catches: the request fails
StepInsertVersion(r) ==
    LET q == reqs[r] IN
    /\ q.pc = "insert"
    /\ IF UniqueVersion(q.pk, q.instance.version)
       THEN /\ versions' = Append(versions, [document |-> q.pk, file |-> q.instance.file,
                                             version |-> q.instance.version,
                                             created_by |-> q.user])
            /\ reqs' = [reqs EXCEPT ![r].pc = "activity"]
       ELSE /\ versions' = versions
            /\ reqs' = [reqs EXCEPT ![r].pc = "failed"]
    /\ UNCHANGED <<folders, docs, activities, comments, nextDoc, nextFolder, nextFile>>

\* serializers.py lines 207-215
StepActivity(r) ==
    LET q == reqs[r] IN
    /\ q.pc = "activity"
    /\ Len(activities) < MaxActs
    /\ activities' = Append(activities, Activity(q.pk, q.user, "updated"))
    /\ reqs' = [reqs EXCEPT ![r].pc = "done"]
    /\ UNCHANGED <<folders, docs, versions, comments, nextDoc, nextFolder, nextFile>>

StepNext ==
    \/ \E user \in Users, data \in DocumentCreateData : CreateDocument(user, data)
    \/ \E r \in ReqIds, user \in Users, pk \in DocIds :
          \E data \in DocumentUpdateData : BeginUpdate(r, user, pk, data)
    \/ \E r \in ReqIds : StepUpdate(r)
    \/ \E r \in ReqIds : StepSharedUsers(r)
    \/ \E r \in ReqIds : StepVersion(r)
    \/ \E r \in ReqIds : StepInsertVersion(r)
    \/ \E r \in ReqIds : StepActivity(r)

StepSpec == Init /\ [][StepNext]_vars

(* ----------------------------------------------------------- CommentSpec *)
(* The handlers that write Comment rows (DocumentViewSet.comments and      *)
(* CommentViewSet) with the DocumentViewSet handlers that create, publish, *)
(* share and delete the Documents commented on.                            *)
CommentIds == 1..MaxComments

CommentNext ==
    \/ \E user \in Users, data \in DocumentCreateData : CreateDocument(user, data)
    \/ \E user \in Users, pk \in DocIds :
          \E data \in DocumentUpdateData : UpdateDocument(user, pk, data)
    \/ \E user \in Users, pk \in DocIds : DestroyDocument(user, pk)
    \/ \E user \in Users, pk \in DocIds, user_ids \in UserIdLists :
          ShareDocument(user, pk, user_ids)
    \/ \E user \in Users, pk \in DocIds, user_ids \in UserIdLists :
          UnshareDocument(user, pk, user_ids)
    \/ \E user \in Users, pk \in DocIds : ListComments(user, pk)
    \/ \E user \in Users, pk \in DocIds : AddComment(user, pk)
    \/ \E user \in Users : ListAllComments(user)
    \/ \E user \in Users, data \in CommentData : CreateComment(user, data)
    \/ \E user \in Users, i \in CommentIds, data \in CommentData :
          UpdateComment(user, i, data)
    \/ \E user \in Users, i \in CommentIds : DestroyComment(user, i)

CommentSpec == Init /\ [][CommentNext]_vars

(* ------------------------------------------------------------ FolderSpec *)
(* The handlers of FolderViewSet over two Folder rows and two names.       *)
FolderNext ==
    \/ \E user \in Users, data \in FolderCreateData(FolderNames) :
          nextFolder <= MaxTreeFolders /\ CreateFolder(user, data)
    \/ \E user \in Users, pk \in TreeFolderIds, data \in FolderUpdateData(FolderNames) :
          UpdateFolder(user, pk, data)
    \/ \E user \in Users, pk \in TreeFolderIds : DestroyFolder(user, pk)
    \/ \E user \in Users : ListFolders(user)
    \/ \E user \in Users, pk \in TreeFolderIds : RetrieveFolder(user, pk)
    \/ \E user \in Users, pk \in TreeFolderIds : FolderContents(user, pk)
    \/ \E user \in Users, pk \in TreeFolderIds, user_ids \in UserIdLists :
          ShareFolder(user, pk, user_ids)
    \/ \E user \in Users, pk \in TreeFolderIds, user_ids \in UserIdLists :
          UnshareFolder(user, pk, user_ids)

FolderSpec == Init /\ [][FolderNext]_vars

(* ================================================================ claims *)
WriteMethods == {"PUT", "PATCH", "DELETE", "POST"}

\* a principal who is not the owner of obj, no administrator and not shared with
Stranger(user, obj) ==
    user # obj.owner /\ ~IsAdminUser(user) /\ user \notin obj.shared_users

\* a principal obj is shared with, who is not its owner and no administrator
SharedWith(user, obj) ==
    user # obj.owner /\ ~IsAdminUser(user) /\ user \in obj.shared_users

\* the DocumentVersion rows of Document d
VersionRows(d) == {i \in DOMAIN versions : versions[i].document = d}

\* a write-type request of user on Document pk / Folder pk
DocumentWrite(user, pk) ==
    \/ \E data \in DocumentUpdateData : UpdateDocument(user, pk, data)
    \/ DestroyDocument(user, pk)
    \/ \E user_ids \in UserIdLists : ShareDocument(user, pk, user_ids)
    \/ \E user_ids \in UserIdLists : UnshareDocument(user, pk, user_ids)

FolderWrite(user, pk) ==
    \/ \E data \in FolderUpdateData(OneFolderName) : UpdateFolder(user, pk, data)
    \/ DestroyFolder(user, pk)
    \/ \E user_ids \in UserIdLists : ShareFolder(user, pk, user_ids)
    \/ \E user_ids \in UserIdLists : UnshareFolder(user, pk, user_ids)

C2_VersionRowsContiguous ==
    \A d \in DOMAIN docs :
        /\ {versions[i].version : i \in VersionRows(d)} = 1..docs[d].version
        /\ Cardinality(VersionRows(d)) = docs[d].version

C2_Witness ==
    \E d \in DOMAIN docs : docs[d].version = 3 /\ Cardinality(VersionRows(d)) = 3

\* C3: on a public Document or Folder a principal who is not its owner, no
\* administrator and not shared with reads successfully, and every write-type
\* request of that principal (update, delete, share, unshare) leaves the store as
\* it was.
C3_PublicIsReadOnly ==
    /\ [](/\ \A user \in Users, pk \in DOMAIN docs :
               (docs[pk].is_public /\ Stranger(user, docs[pk])) =>
                   DocObject(user, "GET", pk) = "ok"
          /\ \A user \in Users, pk \in DOMAIN folders :
               (folders[pk].is_public /\ Stranger(user, folders[pk])) =>
                   FolderObject(user, "GET", pk) = "ok")
    /\ [][UNCHANGED vars \/
          /\ \A user \in Users, pk \in DOMAIN docs :
               (docs[pk].is_public /\ Stranger(user, docs[pk])) =>
                   (DocumentWrite(user, pk) => UNCHANGED store)
          /\ \A user \in Users, pk \in DOMAIN folders :
               (folders[pk].is_public /\ Stranger(user, folders[pk])) =>
                   (FolderWrite(user, pk) => UNCHANGED store)
         ]_vars

\* C4: an administrator passes get_object for every method on every Document and
\* Folder, also on one that is not public, not theirs and not shared with them.
C4_AdminReadsAndWritesAll ==
    \A user \in Users :
        IsAdminUser(user) =>
            /\ \A pk \in DOMAIN docs, method \in WriteMethods \cup {"GET"} :
                  DocObject(user, method, pk) = "ok"
            /\ \A pk \in DOMAIN folders, method \in WriteMethods \cup {"GET"} :
                  FolderObject(user, method, pk) = "ok"

\* what the read handlers of the two view sets answer user
ReadResponses(user) ==
    {ListDocumentsResponse(user), ListFoldersResponse(user)}
    \cup {DocumentDetailResponse(user, pk) : pk \in DocIds}
    \cup {RetrieveFolderResponse(user, pk) : pk \in FolderIds}
    \cup {FolderContentsResponse(user, pk) : pk \in FolderIds}

\* C5: no response to a principal holds a Document or Folder that is not public,
\* not theirs and not shared with them, when they are no administrator, and no
\* write-type request of theirs on such a Document or Folder changes the store.
C5_PrivateIsInvisible ==
    /\ [](\A user \in Users :
            \A r \in ReadResponses(user) :
              /\ \A d \in r.documents :
                    ~(~docs[d].is_public /\ Stranger(user, docs[d]))
              /\ \A f \in r.folders :
                    ~(~folders[f].is_public /\ Stranger(user, folders[f])))
    /\ [][UNCHANGED vars \/
          /\ \A user \in Users, pk \in DOMAIN docs :
               (~docs[pk].is_public /\ Stranger(user, docs[pk])) =>
                   (DocumentWrite(user, pk) => UNCHANGED store)
          /\ \A user \in Users, pk \in DOMAIN folders :
               (~folders[pk].is_public /\ Stranger(user, folders[pk])) =>
                   (FolderWrite(user, pk) => UNCHANGED store)
         ]_vars

\* C6: the owner of a Document or Folder passes get_object for every method on it,
\* whatever its public flag and shared-users set are.
C6_OwnerReadsAndWrites ==
    /\ \A pk \in DOMAIN docs, method \in WriteMethods \cup {"GET"} :
          DocObject(docs[pk].owner, method, pk) = "ok"
    /\ \A pk \in DOMAIN folders, method \in WriteMethods \cup {"GET"} :
          FolderObject(folders[pk].owner, method, pk) = "ok"

\* C6 witness: an owner who is no administrator has replaced the file of and shared
\* a Document that is not public
C6_Witness ==
    \E d \in DOMAIN docs :
        /\ ~IsAdminUser(docs[d].owner) /\ ~docs[d].is_public
        /\ docs[d].owner \notin docs[d].shared_users
        /\ \E i, j \in DOMAIN activities :
              /\ activities[i] = Activity(d, docs[d].owner, "updated")
              /\ activities[j] = Activity(d, docs[d].owner, "shared")

\* C7: a principal a Document that is not public is shared with (not its owner, no
\* administrator) passes get_object for reads, a download of theirs appends an
\* 'accessed' activity, every write method of theirs is denied, and their delete,
\* update, share and unshare requests leave the store as it was.
C7_SharedIsReadOnly ==
    /\ [](\A user \in Users, pk \in DOMAIN docs :
            (~docs[pk].is_public /\ SharedWith(user, docs[pk])) =>
                /\ DocObject(user, "GET", pk) = "ok"
                /\ \A method \in WriteMethods : DocObject(user, method, pk) = "denied")
    /\ [][UNCHANGED vars \/
          \A user \in Users, pk \in DOMAIN docs :
            (~docs[pk].is_public /\ SharedWith(user, docs[pk])) =>
                /\ DownloadDocument(user, pk) =>
                      /\ activities' = Append(activities, Activity(pk, user, "accessed"))
                      /\ UNCHANGED <<docs, versions>>
                /\ DocumentWrite(user, pk) => UNCHANGED store
         ]_vars

\* C7 witness: the owner shared the Document through the share request and the
\* principal it is shared with downloaded it afterwards
C7_Witness ==
    \E d \in DOMAIN docs, user \in Users :
        /\ ~docs[d].is_public /\ SharedWith(user, docs[d])
        /\ \E i, j \in DOMAIN activities :
              /\ i < j
              /\ activities[i] = Activity(d, docs[d].owner, "shared")
              /\ activities[j] = Activity(d, user, "accessed")

\* C8: every step that removes Document rows appends, for each of them, exactly one
\* DocumentActivity of kind 'deleted' with a null document reference.
C8_EveryRemovalIsLogged ==
    [][UNCHANGED vars \/
       LET removed == DOMAIN docs \ DOMAIN docs' IN
       removed # {} =>
          /\ Len(activities') = Len(activities) + Cardinality(removed)
          /\ \A i \in DOMAIN activities' \ DOMAIN activities :
                /\ activities'[i].activity_type = "deleted"
                /\ activities'[i].document = None
      ]_vars

\* C9: a replace-file request that has failed has persisted nothing: the file it
\* stored is not the Document's file and no DocumentVersion or DocumentActivity row
\* of it exists.
C9_FailedRequestPersistsNothing ==
    \A r \in ReqIds :
        reqs[r].pc = "failed" =>
            /\ docs[reqs[r].pk].file # reqs[r].instance.file
            /\ \A i \in DOMAIN versions : versions[i].file # reqs[r].instance.file

\* C10: a step that adds users to the shared-users set of a Document appends a
\* 'shared' activity for it, a step that removes users an 'unshared' activity; a
\* share / unshare request logs the acting principal and changes nothing else of
\* the Document.
C10_SharingIsLogged ==
    [][UNCHANGED vars \/
       /\ \A d \in DOMAIN docs \cap DOMAIN docs' :
            /\ docs'[d].shared_users \ docs[d].shared_users # {} =>
                  /\ Len(activities') = Len(activities) + 1
                  /\ \E user \in Users :
                        activities'[Len(activities')] = Activity(d, user, "shared")
            /\ docs[d].shared_users \ docs'[d].shared_users # {} =>
                  /\ Len(activities') = Len(activities) + 1
                  /\ \E user \in Users :
                        activities'[Len(activities')] = Activity(d, user, "unshared")
       /\ \A user \in Users, pk \in DOMAIN docs, user_ids \in UserIdLists :
            /\ (DocObject(user, "POST", pk) = "ok" /\ ShareDocument(user, pk, user_ids)) =>
                  /\ activities' = Append(activities, Activity(pk, user, "shared"))
                  /\ docs' = [docs EXCEPT ![pk].shared_users = @ \cup user_ids]
                  /\ versions' = versions
            /\ (DocObject(user, "POST", pk) = "ok" /\ UnshareDocument(user, pk, user_ids)) =>
                  /\ activities' = Append(activities, Activity(pk, user, "unshared"))
                  /\ docs' = [docs EXCEPT ![pk].shared_users = @ \ user_ids]
                  /\ versions' = versions
      ]_vars

\* a principal who may write to obj: its owner or an administrator
MayWrite(user, obj) == obj.owner = user \/ IsAdminUser(user)

\* C11: every step that persists a Comment persists one, appends exactly one
\* 'commented' DocumentActivity with the Comment's document and author, and the
\* author is a principal who may write to that Document.
C11_CommentsAreLoggedAndAuthorised ==
    [][UNCHANGED vars \/
       (Len(comments') > Len(comments) =>
          LET c == comments'[Len(comments')] IN
          /\ comments' = Append(comments, c)
          /\ activities' = Append(activities, Activity(c.document, c.user, "commented"))
          /\ MayWrite(c.user, docs[c.document]))
      ]_vars

\* the DocumentActivity rows a principal is sent: by the activity listing and nested
\* in the body of a Document retrieve
ActivitiesSeen(user) ==
    ActivityQueryset(user) \cup UNION {RetrievedActivities(user, pk) : pk \in DocIds}

\* C12: every DocumentActivity row a principal is sent references a Document that
\* principal owns, unless the principal is an administrator; shared or public
\* access to a Document shows none of its activities, before and after the Document
\* is deleted.
C12_ActivitiesOnlyForOwnerOrAdmin ==
    \A user \in Users :
        \A i \in ActivitiesSeen(user) :
            \/ IsAdminUser(user)
            \/ /\ activities[i].document # None
               /\ docs[activities[i].document].owner = user

\* the (name, parent, owner) triple of Folder f
FolderKey(f) == <<folders[f].name, folders[f].parent, folders[f].owner>>

\* C13: no two Folder rows have the same (name, parent, owner) triple, with or
\* without a parent, and a create request whose triple a Folder row already has
\* leaves the store as it was.
C13_FolderTripleIsUnique ==
    /\ [](\A f, g \in DOMAIN folders : f # g => FolderKey(f) # FolderKey(g))
    /\ [][UNCHANGED vars \/
          \A user \in Users, data \in FolderCreateData(FolderNames) :
             LET parent == IF "parent" \in DOMAIN data THEN data.parent ELSE None IN
             (/\ \E f \in DOMAIN folders : FolderKey(f) = <<data.name, parent, user>>
              /\ CreateFolder(user, data)) => UNCHANGED store
         ]_vars

\* C14: the parent references of the Folder rows form a tree: from every Folder the
\* walk of full_path reaches a Folder without a parent (in fewer steps than there
\* are rows), so that no Folder is its own ancestor.
C14_FolderTreeIsAcyclic ==
    \A f \in DOMAIN folders : full_path_ends(f, Cardinality(DOMAIN folders))

\* a request between its load of the Document and its end
InFlight(r) == reqs[r].pc \notin {"idle", "done", "failed"}

\* a replace-file request that has completed successfully
Completed(r) == reqs[r].pc = "done" /\ reqs[r].new_version_needed

\* every request made so far is a replace-file request
OnlyReplaceFile ==
    \A r \in ReqIds : reqs[r].pc # "idle" => reqs[r].new_version_needed

\* C15: with interleaved replace-file requests, every request that completed
\* successfully has inserted the DocumentVersion row of the version it raised the
\* Document to, no two of them on a Document with the same version number, and
\* when the requests made are replace-file requests and none is in flight, every
\* Document has a DocumentVersion row with its version and its stored file.
C15_InterleavedReplaceFile ==
    /\ \A r \in ReqIds :
          Completed(r) =>
              \E i \in DOMAIN versions :
                  versions[i] = [document |-> reqs[r].pk,
                                 file |-> reqs[r].instance.file,
                                 version |-> reqs[r].instance.version,
                                 created_by |-> reqs[r].user]
    /\ \A r1, r2 \in ReqIds :
          (r1 # r2 /\ Completed(r1) /\ Completed(r2) /\ reqs[r1].pk = reqs[r2].pk) =>
              reqs[r1].instance.version # reqs[r2].instance.version
    /\ (OnlyReplaceFile /\ \A r \in ReqIds : ~InFlight(r)) =>
          \A d \in DOMAIN docs :
              \E i \in DOMAIN versions :
                  /\ versions[i].document = d
                  /\ versions[i].version = docs[d].version
                  /\ versions[i].file = docs[d].file

====
